---- MODULE Spec2Model ----
(***************************************************************************)
(* ArduSub/sensors.cpp: the barometer calibration check (read_barometer),  *)
(* the rangefinder sampling cycle (init_rangefinder, read_rangefinder) and *)
(* the validity gate (rangefinder_alt_ok).                                 *)
(*                                                                         *)
(* Representation.                                                         *)
(*  - uint32_t milliseconds are two 16-bit limbs [hi, lo], so that the     *)
(*    subtraction of line 57 and line 82 is taken modulo 2^32.             *)
(*  - The float held by the low-pass filter is a fixed-point number in     *)
(*    units of 1/FiltScale cm; the float terrain offset likewise.          *)
(*  - The z component of the body-to-NED rotation is in thousandths.       *)
(*  - The build has RANGEFINDER_ENABLED and RANGEFINDER_TILT_CORRECTION    *)
(*    both ENABLED.                                                        *)
(***************************************************************************)
EXTENDS Integers, Sequences, FiniteSets, TLC

(***************************************************************************)
(* Bounds of the model.                                                    *)
(***************************************************************************)
MaxCycles == 2       \* sampling cycles explored
MaxTicks == 2        \* clock advances explored
MaxRecoverCycles == 3 \* sampling cycles explored for recovery after dropout
MaxBaroCycles == 4   \* calibration-check cycles explored
FiltScale == 400     \* fixed-point resolution of the filter float, per cm

(***************************************************************************)
(* Program constants.                                                      *)
(***************************************************************************)
RANGEFINDER_TIMEOUT_MS == 1000
RANGEFINDER_HEALTH_MAX == 10
FILT_TIMESTEP_DIV == 20      \* the literal 0.05f of line 61, as 1/20
TILT_FLOOR == 707            \* the literal 0.707f of line 46, in thousandths

(***************************************************************************)
(* Values the environment can hand to the program.                         *)
(***************************************************************************)
StatusSet == {"Good", "NoData"}
ValidCounts == {RANGEFINDER_HEALTH_MAX - 1, RANGEFINDER_HEALTH_MAX}
Qualities == {-1, 90, 91}
Distances == {500}
RotationsCZ == {500, 1000}
PositionsZ == {-1000}
SensorRanges == {<<20, 700>>}
BaroAltitudes == {-150, 0, 150}
TickSteps == {500, 1001}

\* a wider range of distances and attitudes, for the tilt correction alone;
\* the attitudes are values a float holds exactly, and 0.707f itself
TiltDistances == {0, 1, 100, 300, 500, 700, 1000}
TiltRotations == {-1000, 0, 500, 625, 707, 750, 875, 1000}

(***************************************************************************)
(* uint32_t arithmetic on limbs.                                           *)
(***************************************************************************)
Limb == 2^16

U32(h, l) == [hi |-> h, lo |-> l]

\* a + d modulo 2^32, for 0 <= d < Limb
Add32(a, d) ==
    LET s == a.lo + d
    IN  U32((a.hi + (s \div Limb)) % Limb, s % Limb)

\* variant: the borrow out of the low half left out
Sub32_NoBorrow(a, b) == U32((a.hi - b.hi) % Limb, (a.lo - b.lo) % Limb)

\* a - b modulo 2^32
Sub32(a, b) ==
    LET borrow == IF a.lo < b.lo THEN 1 ELSE 0
    IN  U32((a.hi - b.hi - borrow) % Limb, (a.lo - b.lo) % Limb)

\* x > c and x < c for a uint32 x and a constant 0 <= c < Limb
Gt32(x, c) == x.hi > 0 \/ x.lo > c
Lt32(x, c) == x.hi = 0 /\ x.lo < c

\* a <= b as unsigned 32-bit values
Le32(a, b) == a.hi < b.hi \/ (a.hi = b.hi /\ a.lo <= b.lo)

\* the clock value 2^32 - 500, shortly before AP_HAL::millis() wraps
NearWrap == U32(Limb - 1, Limb - 500)

VARIABLES
    initialised,        \* init_rangefinder has run
    rangefinder_state,  \* Sub::rangefinder_state
    rangefinder,        \* the driver's values for ROTATION_PITCH_270
    ahrs_cz,            \* ahrs.get_rotation_body_to_ned().c.z, thousandths
    inertial_z,         \* inertial_nav.get_position_z_up_cm()
    wp_nav,             \* what AC_WPNav was last given, how many times it was
                        \* given it, and its rangefinder_used()
    circle_nav,         \* what AC_Circle was last given, and how many times
    now,                \* AP_HAL::millis()
    wrapped,            \* the clock has wrapped past 2^32
    filt_path,          \* the branch of lines 56-64 the last cycle took
    prev_path,          \* the branch the cycle before it took
    cycle_at,           \* when the last cycle ran: clock value, and whether
                        \* the clock had wrapped by then (SpecTimed only)
    healthy_at,         \* the same for the last healthy cycle, if there was
                        \* one (SpecTimed only)
    alt_ok_ret,         \* <<the value rangefinder_alt_ok has just returned>>, or <<>>
    cycles,             \* sampling cycles run
    ticks,              \* clock advances taken
    barometer,          \* the barometer driver
    depth_sensor_present, \* ap.depth_sensor_present
    sensor_health_depth,  \* sensor_health.depth
    baro_cycles         \* calibration-check cycles run

rf_vars == <<initialised, rangefinder_state, rangefinder, ahrs_cz, inertial_z,
             wp_nav, circle_nav, now, wrapped, filt_path, prev_path, cycle_at,
             healthy_at, alt_ok_ret, cycles, ticks>>
baro_vars == <<barometer, depth_sensor_present, sensor_health_depth, baro_cycles>>
vars == <<rf_vars, baro_vars>>

(***************************************************************************)
(* The low-pass filter rangefinder_state.alt_cm_filt.                      *)
(***************************************************************************)
\* alt_cm_filt.reset(value)
FilterReset(filt, value) == [filt EXCEPT !.output = value * FiltScale]

\* truncating division, as a float-to-fixed-point rounding toward zero
TruncDiv(x, d) == IF x >= 0 THEN x \div d ELSE -((-x) \div d)

\* alt_cm_filt.apply(sample, 0.05f)
FilterApply(filt, sample) ==
    [filt EXCEPT !.output =
        filt.output + TruncDiv(sample * FiltScale - filt.output, FILT_TIMESTEP_DIV)]

(***************************************************************************)
(* read_rangefinder, piece by piece.                                       *)
(***************************************************************************)
\* variant: the quality threshold taken as >= 90
AltHealthy_QualityGe90(status, valid_count, signal_quality_pct) ==
    /\ status = "Good"
    /\ valid_count >= RANGEFINDER_HEALTH_MAX
    /\ (signal_quality_pct = -1 \/ signal_quality_pct >= 90)

\* variant: health latched off by an unhealthy cycle
AltHealthy_Latched(status, valid_count, signal_quality_pct) ==
    /\ status = "Good"
    /\ valid_count >= RANGEFINDER_HEALTH_MAX
    /\ (signal_quality_pct = -1 \/ signal_quality_pct > 90)
    /\ (filt_path = "none" \/ rangefinder_state.alt_healthy)

\* lines 37-40
AltHealthy(status, valid_count, signal_quality_pct) ==
    /\ status = "Good"
    /\ valid_count >= RANGEFINDER_HEALTH_MAX
    /\ (signal_quality_pct = -1 \/ signal_quality_pct > 90)

\* variant: the correction without its floor
TiltCorrect_NoFloor(temp_alt, cz) == TruncDiv(temp_alt * cz, 1000)

\* line 46: (int16_t)((float)temp_alt * MAX(0.707f, c.z))
TiltCorrect(temp_alt, cz) ==
    TruncDiv(temp_alt * (IF cz > TILT_FLOOR THEN cz ELSE TILT_FLOOR), 1000)

\* variant: the timeout taken twice as long
FilterTimedOut_Late(t, last_healthy_ms) ==
    Gt32(Sub32(t, last_healthy_ms), 2 * RANGEFINDER_TIMEOUT_MS)

\* variant: >= in place of >
FilterTimedOut_Ge(t, last_healthy_ms) ==
    ~Lt32(Sub32(t, last_healthy_ms), RANGEFINDER_TIMEOUT_MS)

\* line 57: now - last_healthy_ms > RANGEFINDER_TIMEOUT_MS
FilterTimedOut(t, last_healthy_ms) ==
    Gt32(Sub32(t, last_healthy_ms), RANGEFINDER_TIMEOUT_MS)

\* variant: the filter updated whether or not the sample is healthy
FilterUpdate_Always(st, t) ==
    [st EXCEPT
        !.alt_cm_filt = IF FilterTimedOut(t, st.last_healthy_ms)
                        THEN FilterReset(st.alt_cm_filt, st.alt_cm)
                        ELSE FilterApply(st.alt_cm_filt, st.alt_cm),
        !.last_healthy_ms = t]

\* variant: the timestamp taken on the blend path only
FilterUpdate_NoStampOnReset(st, t) ==
    IF st.alt_healthy
    THEN IF FilterTimedOut(t, st.last_healthy_ms)
         THEN [st EXCEPT !.alt_cm_filt = FilterReset(st.alt_cm_filt, st.alt_cm)]
         ELSE [st EXCEPT !.alt_cm_filt = FilterApply(st.alt_cm_filt, st.alt_cm),
                         !.last_healthy_ms = t]
    ELSE st

\* lines 56-64
FilterUpdate(st, t) ==
    IF st.alt_healthy
    THEN [st EXCEPT
            !.alt_cm_filt = IF FilterTimedOut(t, st.last_healthy_ms)
                            THEN FilterReset(st.alt_cm_filt, st.alt_cm)
                            ELSE FilterApply(st.alt_cm_filt, st.alt_cm),
            !.last_healthy_ms = t]
    ELSE st

\* variant: the filtered altitude added instead of subtracted
TerrainOffset_Sum(z, filt) == z * FiltScale + filt.output

\* line 67
TerrainOffset(z, filt) == z * FiltScale - filt.output

\* lines 56-62: the branch taken
FilterPath(st, t) ==
    IF ~st.alt_healthy THEN "kept"
    ELSE IF FilterTimedOut(t, st.last_healthy_ms) THEN "reset" ELSE "blend"

\* variant: <= in place of <
GateFresh_Le(t, last_healthy_ms) ==
    ~Gt32(Sub32(t, last_healthy_ms), RANGEFINDER_TIMEOUT_MS)

\* line 82: now - last_healthy_ms < RANGEFINDER_TIMEOUT_MS
GateFresh(t, last_healthy_ms) ==
    Lt32(Sub32(t, last_healthy_ms), RANGEFINDER_TIMEOUT_MS)

\* line 82
rangefinder_alt_ok ==
    /\ rangefinder_state.enabled
    /\ rangefinder_state.alt_healthy
    /\ GateFresh(now, rangefinder_state.last_healthy_ms)

\* variant: >= in place of >
NeedsCalibration_Ge0(altitude) == altitude >= 0

\* variant: calibration only when a depth sensor is present
NeedsCalibration_IfDepth(altitude) == altitude > 0 /\ depth_sensor_present

\* line 9
NeedsCalibration(altitude) == altitude > 0

\* variant: the flag written whether or not a depth sensor is present
DepthHealth_Always(present, healthy, depth) == healthy

\* lines 13-15: sensor_health.depth after the cycle
DepthHealth(present, healthy, depth) == IF present THEN healthy ELSE depth

(***************************************************************************)
(* Initial state: the vehicle object as constructed, clock at boot.        *)
(***************************************************************************)
Init ==
    /\ initialised = FALSE
    /\ rangefinder_state =
          [enabled |-> FALSE, alt_healthy |-> FALSE, alt_cm |-> 0,
           min_cm |-> 0, max_cm |-> 0,
           alt_cm_filt |-> [output |-> 0, cutoff |-> "default"],
           last_healthy_ms |-> U32(0, 0)]
    /\ \E r \in SensorRanges :
          rangefinder = [status |-> "NotConnected", valid_count |-> 0,
                         signal_quality_pct |-> -1, distance_cm |-> 0,
                         min_distance_cm |-> r[1], max_distance_cm |-> r[2]]
    /\ ahrs_cz = 1000
    /\ inertial_z = 0
    /\ wp_nav = [rangefinder_available |-> FALSE, rangefinder_healthy |-> FALSE,
                 terrain_offset |-> 0, rangefinder_used |-> FALSE, calls |-> 0]
    /\ circle_nav = [rangefinder_available |-> FALSE, rangefinder_healthy |-> FALSE,
                     terrain_offset |-> 0, calls |-> 0]
    /\ now = U32(0, 0)
    /\ wrapped = FALSE
    /\ filt_path = "none"
    /\ prev_path = "none"
    /\ cycle_at = [ms |-> U32(0, 0), wrapped |-> FALSE]
    /\ healthy_at = [seen |-> FALSE, ms |-> U32(0, 0), wrapped |-> FALSE]
    /\ alt_ok_ret = <<>>
    /\ cycles = 0
    /\ ticks = 0
    /\ barometer = [altitude |-> 0, healthy |-> FALSE, calibrations |-> 0]
    /\ depth_sensor_present = FALSE
    /\ sensor_health_depth = FALSE
    /\ baro_cycles = 0

(***************************************************************************)
(* The clock.                                                              *)
(***************************************************************************)
Tick ==
    /\ ticks < MaxTicks
    /\ \E d \in TickSteps :
          /\ now' = Add32(now, d)
          /\ wrapped' = (wrapped \/ ~Le32(now, Add32(now, d)))
    /\ ticks' = ticks + 1
    /\ alt_ok_ret' = <<>>
    /\ UNCHANGED <<initialised, rangefinder_state, rangefinder, ahrs_cz,
                   inertial_z, wp_nav, circle_nav, filt_path, prev_path, cycle_at, healthy_at,
                   cycles>>
    /\ UNCHANGED baro_vars

\* A long run of cycles that all repeat the last, unhealthy, reading: they
\* leave rangefinder_state as it is while the clock runs on to NearWrap.
IdleUntilNearWrap ==
    /\ initialised
    /\ ~rangefinder_state.alt_healthy
    /\ ~wrapped
    /\ now.hi < NearWrap.hi
    /\ now' = NearWrap
    /\ alt_ok_ret' = <<>>
    /\ UNCHANGED <<initialised, rangefinder_state, rangefinder, ahrs_cz,
                   inertial_z, wp_nav, circle_nav, wrapped, filt_path,
                   prev_path, cycle_at, healthy_at, cycles, ticks>>
    /\ UNCHANGED baro_vars

(***************************************************************************)
(* Sub::init_rangefinder, lines 18-26.                                     *)
(***************************************************************************)
init_rangefinder ==
    /\ ~initialised
    /\ initialised' = TRUE
    /\ \E has_orientation \in BOOLEAN :
          rangefinder_state' =
              [rangefinder_state EXCEPT
                  !.alt_cm_filt.cutoff = "RANGEFINDER_WPNAV_FILT_HZ",
                  !.enabled = has_orientation]
    /\ alt_ok_ret' = <<>>
    /\ UNCHANGED <<rangefinder, ahrs_cz, inertial_z, wp_nav, circle_nav, now,
                   wrapped, filt_path, prev_path, cycle_at, healthy_at, cycles, ticks>>
    /\ UNCHANGED baro_vars

(***************************************************************************)
(* Sub::read_rangefinder, lines 29-76.                                     *)
(***************************************************************************)
\* lines 37-51: the state after the sample has been taken
Sampled(st, rf, cz) ==
    [st EXCEPT
        !.alt_healthy = AltHealthy(rf.status, rf.valid_count, rf.signal_quality_pct),
        !.alt_cm = TiltCorrect(rf.distance_cm, cz),
        !.min_cm = rf.min_distance_cm,
        !.max_cm = rf.max_distance_cm]

\* one cycle, with what the drivers return drawn from the given sets, while
\* fewer than max cycles have run
Cycle(max, statuses, counts, qualities, dists, czs, zs, useds) ==
    /\ initialised
    /\ cycles < max
    /\ \E status \in statuses, count \in counts, quality \in qualities,
          dist \in dists, cz \in czs, z \in zs, used \in useds :
          LET rf == [rangefinder EXCEPT !.status = status,
                                        !.valid_count = count,
                                        !.signal_quality_pct = quality,
                                        !.distance_cm = dist]
              sampled == Sampled(rangefinder_state, rf, cz)
              st == FilterUpdate(sampled, now)
              offset == TerrainOffset(z, st.alt_cm_filt)
          IN  /\ rangefinder' = rf
              /\ ahrs_cz' = cz
              /\ inertial_z' = z
              /\ rangefinder_state' = st
              /\ filt_path' = FilterPath(sampled, now)
              /\ prev_path' = filt_path
              /\ wp_nav' = [rangefinder_available |-> st.enabled,
                            rangefinder_healthy |-> st.alt_healthy,
                            terrain_offset |-> offset,
                            rangefinder_used |-> used,
                            calls |-> wp_nav.calls + 1]
              /\ circle_nav' = [rangefinder_available |-> st.enabled /\ used,
                                rangefinder_healthy |-> st.alt_healthy,
                                terrain_offset |-> offset,
                                calls |-> circle_nav.calls + 1]
    /\ cycles' = cycles + 1
    /\ alt_ok_ret' = <<>>
    /\ UNCHANGED <<initialised, now, wrapped, ticks>>
    /\ UNCHANGED baro_vars

read_rangefinder ==
    /\ Cycle(MaxCycles, StatusSet, ValidCounts, Qualities, Distances,
             RotationsCZ, PositionsZ, {FALSE})
    /\ UNCHANGED <<cycle_at, healthy_at>>

\* the same cycle with the waypoint controller using the rangefinder or not,
\* over readings that differ in status and attitude only
read_rangefinder_published ==
    /\ Cycle(MaxCycles, StatusSet, {RANGEFINDER_HEALTH_MAX}, {-1}, Distances,
             RotationsCZ, PositionsZ, BOOLEAN)
    /\ UNCHANGED <<cycle_at, healthy_at>>

\* the same cycle over the wider distances and attitudes
read_rangefinder_tilted ==
    /\ Cycle(MaxCycles, StatusSet, {RANGEFINDER_HEALTH_MAX}, {-1},
             TiltDistances, TiltRotations, PositionsZ, {FALSE})
    /\ UNCHANGED <<cycle_at, healthy_at>>

\* the same cycle for one cycle more, over readings that fail or pass each
\* of the three health checks
read_rangefinder_recovering ==
    /\ Cycle(MaxRecoverCycles, StatusSet, ValidCounts, {90, 91}, Distances,
             RotationsCZ, PositionsZ, {FALSE})
    /\ UNCHANGED <<cycle_at, healthy_at>>

\* the same cycle with the time it ran at noted, over readings that differ
\* in status and attitude only
read_rangefinder_timed ==
    /\ Cycle(MaxCycles, StatusSet, {RANGEFINDER_HEALTH_MAX}, {-1}, Distances,
             RotationsCZ, PositionsZ, {FALSE})
    /\ cycle_at' = [ms |-> now, wrapped |-> wrapped]
    /\ healthy_at' = IF rangefinder_state'.alt_healthy
                     THEN [seen |-> TRUE, ms |-> now, wrapped |-> wrapped]
                     ELSE healthy_at

(***************************************************************************)
(* A call of Sub::rangefinder_alt_ok, lines 79-83.                         *)
(***************************************************************************)
rangefinder_alt_ok_call ==
    /\ alt_ok_ret' = <<rangefinder_alt_ok>>
    /\ UNCHANGED <<initialised, rangefinder_state, rangefinder, ahrs_cz,
                   inertial_z, wp_nav, circle_nav, now, wrapped, filt_path,
                   prev_path, cycle_at, healthy_at, cycles, ticks>>
    /\ UNCHANGED baro_vars

(***************************************************************************)
(* Start-up finds a depth sensor among the barometers and sets             *)
(* ap.depth_sensor_present.                                                *)
(***************************************************************************)
detect_depth_sensor ==
    /\ ~depth_sensor_present
    /\ depth_sensor_present' = TRUE
    /\ UNCHANGED <<barometer, sensor_health_depth, baro_cycles>>
    /\ UNCHANGED rf_vars

(***************************************************************************)
(* Sub::read_barometer, lines 4-16.                                        *)
(***************************************************************************)
read_barometer ==
    /\ baro_cycles < MaxBaroCycles
    /\ \E altitude \in BaroAltitudes, healthy \in BOOLEAN :
          /\ barometer' =
                [altitude |-> altitude,
                 healthy |-> healthy,
                 calibrations |-> IF NeedsCalibration(altitude)
                                  THEN barometer.calibrations + 1
                                  ELSE barometer.calibrations]
          /\ sensor_health_depth' =
                DepthHealth(depth_sensor_present, healthy, sensor_health_depth)
    /\ baro_cycles' = baro_cycles + 1
    /\ UNCHANGED depth_sensor_present
    /\ UNCHANGED rf_vars

(***************************************************************************)
(* Specifications: the rangefinder pipeline with its clock, and the        *)
(* calibration check.  The two share no state.                             *)
(***************************************************************************)
Next ==
    \/ Tick
    \/ IdleUntilNearWrap
    \/ init_rangefinder
    \/ read_rangefinder
    \/ rangefinder_alt_ok_call

Spec == Init /\ [][Next]_vars

NextTilt ==
    \/ init_rangefinder
    \/ read_rangefinder_tilted

SpecTilt == Init /\ [][NextTilt]_vars

NextRecover ==
    \/ Tick
    \/ init_rangefinder
    \/ read_rangefinder_recovering

SpecRecover == Init /\ [][NextRecover]_vars

NextTimed ==
    \/ Tick
    \/ IdleUntilNearWrap
    \/ init_rangefinder
    \/ read_rangefinder_timed
    \/ rangefinder_alt_ok_call

SpecTimed == Init /\ [][NextTimed]_vars

NextPublished ==
    \/ Tick
    \/ init_rangefinder
    \/ read_rangefinder_published

SpecPublished == Init /\ [][NextPublished]_vars

NextBaro ==
    \/ detect_depth_sensor
    \/ read_barometer

SpecBaro == Init /\ [][NextBaro]_vars

(***************************************************************************)
(* Properties.                                                             *)
(***************************************************************************)
\* now - last_healthy_ms, as lines 57 and 82 compute it
Elapsed == Sub32(now, rangefinder_state.last_healthy_ms)

\* steps of the three operations
CycleStep == cycles' = cycles + 1
GateStep == alt_ok_ret' # <<>>
BaroStep == baro_cycles' = baro_cycles + 1

\* the filter value that stands for a whole number of centimetres
Exactly(cm) == cm * FiltScale

\* C1: after every sampling cycle alt_healthy holds exactly when the status
\* read is Good, the valid count read is at least the health threshold, and
\* the signal quality read is -1 or above 90.
ThmC1 ==
    cycles > 0 =>
        (rangefinder_state.alt_healthy <=>
            /\ rangefinder.status = "Good"
            /\ rangefinder.valid_count >= RANGEFINDER_HEALTH_MAX
            /\ (rangefinder.signal_quality_pct = -1
                \/ rangefinder.signal_quality_pct > 90))

\* status Good, valid count exactly at the threshold, quality 91: healthy
WitC1 ==
    /\ cycles > 0
    /\ rangefinder.status = "Good"
    /\ rangefinder.valid_count = RANGEFINDER_HEALTH_MAX
    /\ rangefinder.signal_quality_pct = 91
    /\ rangefinder_state.alt_healthy

\* C2: when enabled is false, after every sampling cycle alt_healthy is
\* false and alt_cm is 0, whatever the driver returns.
CexC2 ==
    (cycles > 0 /\ ~rangefinder_state.enabled) =>
        (~rangefinder_state.alt_healthy /\ rangefinder_state.alt_cm = 0)

\* C3: a healthy cycle that finds more than RANGEFINDER_TIMEOUT_MS elapsed
\* since the last healthy one leaves the filter at exactly that cycle's
\* tilt-corrected sample, whatever the filter held before.
ThmC3 ==
    [][(/\ CycleStep
        /\ rangefinder_state'.alt_healthy
        /\ Gt32(Elapsed, RANGEFINDER_TIMEOUT_MS))
       => rangefinder_state'.alt_cm_filt.output = Exactly(rangefinder_state'.alt_cm)]_vars

\* a second cycle has reset the filter to its sample
WitC3 ==
    /\ cycles = 2
    /\ filt_path = "reset"
    /\ rangefinder_state.alt_healthy
    /\ rangefinder_state.alt_cm = 353
    /\ rangefinder_state.alt_cm_filt.output = Exactly(353)

ThmC5 ==
    [][GateStep =>
        /\ alt_ok_ret' = << /\ rangefinder_state.enabled
                            /\ rangefinder_state.alt_healthy
                            /\ Lt32(Elapsed, RANGEFINDER_TIMEOUT_MS) >>
        /\ UNCHANGED <<initialised, rangefinder_state, rangefinder, ahrs_cz,
                       inertial_z, wp_nav, circle_nav, now, wrapped,
                       filt_path, cycles, ticks, baro_vars>>]_vars

\* the gate has answered false for an enabled, healthy rangefinder whose
\* last healthy sample is exactly RANGEFINDER_TIMEOUT_MS old
WitC5 ==
    /\ alt_ok_ret = <<FALSE>>
    /\ rangefinder_state.enabled
    /\ rangefinder_state.alt_healthy
    /\ Elapsed = U32(0, RANGEFINDER_TIMEOUT_MS)

\* C6 as stated: at every time the gate takes the last healthy sample for
\* fresh exactly when a healthy sample arriving then would be blended.
CexC6 ==
    GateFresh(now, rangefinder_state.last_healthy_ms)
        <=> ~FilterTimedOut(now, rangefinder_state.last_healthy_ms)

\* C6 as amended: the two decisions agree at every elapsed time but
\* RANGEFINDER_TIMEOUT_MS itself, where the gate takes the sample for stale
\* and the filter blends.
ThmC6 ==
    IF Elapsed = U32(0, RANGEFINDER_TIMEOUT_MS)
    THEN /\ ~GateFresh(now, rangefinder_state.last_healthy_ms)
         /\ ~FilterTimedOut(now, rangefinder_state.last_healthy_ms)
    ELSE GateFresh(now, rangefinder_state.last_healthy_ms)
            <=> ~FilterTimedOut(now, rangefinder_state.last_healthy_ms)

\* exactly RANGEFINDER_TIMEOUT_MS after a healthy cycle
WitC6 ==
    /\ cycles > 0
    /\ rangefinder_state.alt_healthy
    /\ Elapsed = U32(0, RANGEFINDER_TIMEOUT_MS)
    /\ alt_ok_ret = <<>>

\* C7 as stated: a barometer altitude of 0 triggers calibration and one of
\* 150 does not.
CexC7 ==
    [][BaroStep =>
        /\ (barometer'.altitude = 0
              => barometer'.calibrations = barometer.calibrations + 1)
        /\ (barometer'.altitude = 150
              => barometer'.calibrations = barometer.calibrations)]_vars

\* C7 as amended: a barometer altitude of 0 does not trigger calibration
\* and one of 150 does.
ThmC7 ==
    [][BaroStep =>
        /\ (barometer'.altitude = 0
              => barometer'.calibrations = barometer.calibrations)
        /\ (barometer'.altitude = 150
              => barometer'.calibrations = barometer.calibrations + 1)]_vars

\* a first cycle read 150 and calibrated, a second read 0 and did not
WitC7 ==
    /\ baro_cycles = 2
    /\ barometer.altitude = 0
    /\ barometer.calibrations = 1

\* C8: every calibration-check cycle calls update_calibration once if the
\* altitude it read is above 0 and not at all otherwise, with or without a
\* depth sensor.
ThmC8 ==
    [][BaroStep =>
        barometer'.calibrations =
            barometer.calibrations + (IF barometer'.altitude > 0 THEN 1 ELSE 0)]_vars

\* three cycles in a row read a positive altitude, with no depth sensor
WitC8 ==
    /\ baro_cycles = 3
    /\ barometer.calibrations = 3
    /\ ~depth_sensor_present

\* C9: a cycle that is not healthy leaves the filter and last_healthy_ms as
\* they were, and the filter changes in healthy cycles only.
ThmC9 ==
    [][/\ (CycleStep /\ ~rangefinder_state'.alt_healthy)
            => /\ rangefinder_state'.alt_cm_filt = rangefinder_state.alt_cm_filt
               /\ rangefinder_state'.last_healthy_ms = rangefinder_state.last_healthy_ms
       /\ (rangefinder_state'.alt_cm_filt.output # rangefinder_state.alt_cm_filt.output)
            => (CycleStep /\ rangefinder_state'.alt_healthy)]_vars

\* an unhealthy second cycle, later than the first, has kept the filter
\* value and the timestamp of a healthy first one
WitC9 ==
    /\ cycles = 2
    /\ filt_path = "kept"
    /\ ~rangefinder_state.alt_healthy
    /\ rangefinder_state.alt_cm_filt.output = Exactly(500)
    /\ rangefinder_state.alt_cm = 353
    /\ rangefinder_state.last_healthy_ms = U32(0, 1001)
    /\ now = U32(0, 1501)

\* C10: while the clock has not wrapped last_healthy_ms never decreases and
\* is never ahead of the clock, and after every healthy cycle it is the
\* time of that cycle.
ThmC10 ==
    /\ [](~wrapped => Le32(rangefinder_state.last_healthy_ms, now))
    /\ [][/\ ~wrapped' => Le32(rangefinder_state.last_healthy_ms,
                               rangefinder_state'.last_healthy_ms)
          /\ (CycleStep /\ rangefinder_state'.alt_healthy)
                => rangefinder_state'.last_healthy_ms = now]_vars

\* a healthy second cycle on the reset path has taken the time of the cycle
WitC10 ==
    /\ cycles = 2
    /\ filt_path = "reset"
    /\ ~wrapped
    /\ now = U32(0, 2002)
    /\ rangefinder_state.last_healthy_ms = now

\* C11: every sampling cycle, healthy or not, calls each navigation consumer
\* once, after its filter update: the waypoint controller gets (enabled,
\* alt_healthy, offset) and the circle controller (enabled and the waypoint
\* controller's rangefinder_used(), alt_healthy, the same offset), where
\* offset is the vertical position less the filter value after the update,
\* which on an unhealthy cycle is the value the filter held before; no
\* other step calls them.
ThmC11 ==
    [][IF CycleStep
       THEN LET offset == inertial_z' * FiltScale
                              - rangefinder_state'.alt_cm_filt.output
            IN  /\ wp_nav'.calls = wp_nav.calls + 1
                /\ circle_nav'.calls = circle_nav.calls + 1
                /\ wp_nav'.rangefinder_available = rangefinder_state'.enabled
                /\ wp_nav'.rangefinder_healthy = rangefinder_state'.alt_healthy
                /\ wp_nav'.terrain_offset = offset
                /\ circle_nav'.rangefinder_available =
                      (rangefinder_state'.enabled /\ wp_nav'.rangefinder_used)
                /\ circle_nav'.rangefinder_healthy = rangefinder_state'.alt_healthy
                /\ circle_nav'.terrain_offset = offset
                /\ ~rangefinder_state'.alt_healthy =>
                      offset = inertial_z' * FiltScale
                                  - rangefinder_state.alt_cm_filt.output
       ELSE UNCHANGED <<wp_nav, circle_nav>>]_vars

\* an unhealthy second cycle has published the offset from the value a
\* healthy first cycle left in the filter, to both consumers
WitC11 ==
    /\ cycles = 2
    /\ filt_path = "kept"
    /\ rangefinder_state.enabled
    /\ rangefinder_state.alt_cm_filt.output = Exactly(500)
    /\ wp_nav.calls = 2
    /\ circle_nav.calls = 2
    /\ wp_nav.rangefinder_used
    /\ circle_nav.rangefinder_available
    /\ ~circle_nav.rangefinder_healthy
    /\ circle_nav.terrain_offset = Exactly(-1000) - Exactly(500)

\* C12: with enabled false every sampling cycle still calls both navigation
\* consumers, and gives both an enabled flag and a healthy flag of false.
CexC12 ==
    [][(CycleStep /\ ~rangefinder_state.enabled) =>
        /\ wp_nav'.calls = wp_nav.calls + 1
        /\ circle_nav'.calls = circle_nav.calls + 1
        /\ ~wp_nav'.rangefinder_available
        /\ ~circle_nav'.rangefinder_available
        /\ ~wp_nav'.rangefinder_healthy
        /\ ~circle_nav'.rangefinder_healthy]_vars

\* C13: after every sampling cycle alt_cm is the distance read times
\* max(0.707, c.z), truncated: never below the distance times 0.707, never
\* above what a larger c.z gives, the distance itself at c.z = 1.0, and one
\* value for every c.z <= 0.707.
ThmC13 ==
    cycles > 0 =>
        LET d == rangefinder.distance_cm
            factor == IF ahrs_cz >= 707 THEN ahrs_cz ELSE 707
            alt == rangefinder_state.alt_cm
        IN  /\ alt * 1000 <= d * factor
            /\ d * factor < (alt + 1) * 1000
            /\ alt >= (d * 707) \div 1000
            /\ \A cz2 \in TiltRotations :
                  ahrs_cz <= cz2 => alt <= TiltCorrect(d, cz2)
            /\ ahrs_cz = 1000 => alt = d
            /\ ahrs_cz <= 707 => alt = (d * 707) \div 1000

\* 500 cm read level stays 500
WitC13 ==
    /\ cycles > 0
    /\ rangefinder.distance_cm = 500
    /\ ahrs_cz = 1000
    /\ rangefinder_state.alt_cm = 500

\* C14: health is decided cycle by cycle.  A cycle whose reading fails any
\* of the three checks is unhealthy and keeps the filter value; a cycle
\* whose reading passes all three is healthy whatever the cycles before it
\* were, and if it comes within RANGEFINDER_TIMEOUT_MS of the last healthy
\* one it blends into the value the filter kept.
ThmC14 ==
    [][CycleStep =>
        LET passes == /\ rangefinder'.status = "Good"
                      /\ rangefinder'.valid_count >= RANGEFINDER_HEALTH_MAX
                      /\ (rangefinder'.signal_quality_pct = -1
                          \/ rangefinder'.signal_quality_pct > 90)
            old == rangefinder_state.alt_cm_filt.output
            new == rangefinder_state'.alt_cm_filt.output
            sample == Exactly(rangefinder_state'.alt_cm)
        IN  /\ ~passes => (~rangefinder_state'.alt_healthy /\ new = old)
            /\ passes => rangefinder_state'.alt_healthy
            /\ (passes /\ ~Gt32(Elapsed, RANGEFINDER_TIMEOUT_MS))
                  => /\ (sample >= old => (old <= new /\ new <= sample))
                     /\ (sample <= old => (sample <= new /\ new <= old))
                     /\ (sample # old => new # sample)]_vars

\* a healthy third cycle, after an unhealthy second, has blended a sample of
\* 353 cm into the 500 cm that a first cycle left in the filter
WitC14 ==
    /\ cycles = 3
    /\ prev_path = "kept"
    /\ filt_path = "blend"
    /\ rangefinder_state.alt_healthy
    /\ rangefinder_state.alt_cm = 353
    /\ rangefinder_state.alt_cm_filt.output
          = Exactly(500) + TruncDiv(Exactly(353) - Exactly(500), 20)

\* C15: a calibration-check cycle sets sensor_health.depth to the health
\* the barometer reports for the depth sensor when a depth sensor is
\* present, and leaves it as it was when none is.
ThmC15 ==
    [][BaroStep =>
        IF depth_sensor_present
        THEN sensor_health_depth' = barometer'.healthy
        ELSE sensor_health_depth' = sensor_health_depth]_vars

\* with no depth sensor, a cycle in which the barometer reports healthy has
\* left the flag false
WitC15 ==
    /\ baro_cycles > 0
    /\ ~depth_sensor_present
    /\ barometer.healthy
    /\ ~sensor_health_depth

\* The milliseconds that have truly passed since the time noted in at, as
\* [hi, lo]: the plain difference of the clock values if the clock has not
\* wrapped since, and what was left to 2^32 plus the clock value if it has.
TrueSince(at) ==
    IF at.wrapped = wrapped
    THEN LET lo == now.lo - at.ms.lo
         IN  IF lo >= 0 THEN [hi |-> now.hi - at.ms.hi, lo |-> lo]
                        ELSE [hi |-> now.hi - at.ms.hi - 1, lo |-> lo + Limb]
    ELSE LET lo == (Limb - at.ms.lo) + now.lo
             hi == (Limb - 1 - at.ms.hi) + now.hi
         IN  [hi |-> hi + (lo \div Limb), lo |-> lo % Limb]

\* C16: whenever alt_healthy is true, last_healthy_ms is the time of the
\* most recent sampling cycle; so whenever rangefinder_alt_ok returns true,
\* the most recent cycle was healthy and ran less than
\* RANGEFINDER_TIMEOUT_MS ago.
ThmC16 ==
    /\ (cycles > 0 /\ rangefinder_state.alt_healthy)
          => rangefinder_state.last_healthy_ms = cycle_at.ms
    /\ alt_ok_ret = <<TRUE>>
          => /\ cycles > 0
             /\ filt_path \in {"reset", "blend"}
             /\ TrueSince(cycle_at).hi = 0
             /\ TrueSince(cycle_at).lo < RANGEFINDER_TIMEOUT_MS

\* the gate has answered false 500 ms after an unhealthy cycle that came
\* 500 ms after a healthy one
WitC16 ==
    /\ cycles = 2
    /\ prev_path \in {"reset", "blend"}
    /\ filt_path = "kept"
    /\ rangefinder_state.enabled
    /\ TrueSince(healthy_at) = [hi |-> 0, lo |-> 1000]
    /\ TrueSince(cycle_at) = [hi |-> 0, lo |-> 500]
    /\ alt_ok_ret = <<FALSE>>

\* C17: the elapsed time the code computes is the true time since the last
\* healthy cycle, also when the clock has wrapped in between: a healthy
\* cycle blends if that time is at most RANGEFINDER_TIMEOUT_MS and resets
\* if it is more, and rangefinder_alt_ok compares that time with
\* RANGEFINDER_TIMEOUT_MS.  This is for true times below 2^32 ms.
ThmC17 ==
    [][(healthy_at.seen /\ TrueSince(healthy_at).hi < Limb) =>
        LET d == TrueSince(healthy_at)
        IN  /\ (CycleStep /\ rangefinder_state'.alt_healthy) =>
                  /\ Elapsed = d
                  /\ filt_path' = IF d.hi = 0 /\ d.lo <= RANGEFINDER_TIMEOUT_MS
                                  THEN "blend" ELSE "reset"
                  /\ ~(d.hi = 0 /\ d.lo <= RANGEFINDER_TIMEOUT_MS) =>
                        rangefinder_state'.alt_cm_filt.output
                            = Exactly(rangefinder_state'.alt_cm)
            /\ GateStep =>
                  alt_ok_ret' = << /\ rangefinder_state.enabled
                                   /\ rangefinder_state.alt_healthy
                                   /\ d.hi = 0
                                   /\ d.lo < RANGEFINDER_TIMEOUT_MS >>]_vars

\* a healthy cycle 500 ms before the clock wrapped, and a healthy cycle at
\* clock value 0 that has blended
WitC17 ==
    /\ cycles = 2
    /\ wrapped
    /\ now = U32(0, 0)
    /\ prev_path = "reset"
    /\ filt_path = "blend"
    /\ healthy_at = [seen |-> TRUE, ms |-> now, wrapped |-> TRUE]

====
